---- MODULE Spec2Model ----
(***************************************************************************)
(* Model of the streaming recognition endpoint /recognize_stream of        *)
(* vosk_service.py: the three process-wide registries (recognizers,        *)
(* session_locks, session_closed), the per-session threading.Lock objects  *)
(* and one worker thread per request, stepping through the handler at the  *)
(* granularity of its accesses to shared state and of its engine calls.    *)
(***************************************************************************)
EXTENDS Integers, FiniteSets, Sequences, TLC

\* ---------------------------------------------------------------- bounds
NReq == 3
NSess == 2
MaxBody == 64008
\* Requests to /recognize_stream and to /reset served next to each other.
NReqReset == 2
MaxResets == 2

Req == 1..NReq
Sessions == 1..NSess

\* ------------------------------------------------------ program constants
SampleWidth == 4
ShortBytes == 640
MaxBytes == 32000
MinSamples == 160
Unit == 1000
FullScale == 32767
ClickLimit == 20000

\* Absent dictionary entry / Python None.
None == 0

\* Body lengths drawn by concurrent requests: empty, misaligned, too short,
\* shortest accepted.
BodyLens == {0, SampleWidth + 2, ShortBytes * 2 - SampleWidth, ShortBytes * 2}
\* Body lengths drawn by a request processed alone.
NormLens == 0..MaxBody
\* Body lengths drawn with the waves of ClickWaves: too short, shortest
\* accepted, longest untruncated, truncated.
ClickLens == {ShortBytes * 2 - SampleWidth, ShortBytes * 2, MaxBytes * 2,
              MaxBytes * 2 + 2 * SampleWidth}

VARIABLES
    model,            \* global model: TRUE when vosk.Model was loaded
    rec,              \* global rec: the legacy recognizer (None when absent)
    resets,           \* history: /reset requests answered
    reset_resp,       \* the response of the last /reset request
    recognizers,      \* dict session id -> engine handle (None when absent)
    session_locks,    \* dict session id -> lock object (None when absent)
    session_closed,   \* set of session ids marked closed
    locked,           \* the lock objects currently held
    nextLock,         \* identity of the next threading.Lock() stored
    nextHandle,       \* identity of the next KaldiRecognizer created
    pc,               \* position of each request in the handler
    sid,              \* local session_id
    eou,              \* local end_of_utt
    body,             \* len(audio_data) once read
    float_data,       \* the samples of the body, as a wave (see below)
    lock,             \* local lock
    local_rec,        \* local rec_session / local_rec
    audio_bytes,      \* len(audio_bytes) handed to the engine
    accept_result,    \* local accept_result: "none" until AcceptWaveform ends
    engine_out,       \* local result_str / partial_str: "none" until returned
    resp,             \* the response returned
    calls,            \* history: engine operations the request invoked
    wrote,            \* history: sessions whose registry entries it changed
    overlapped,       \* history: another request of its session was in flight
    after,            \* history: began right after a completed close
    seen,             \* history: its session's entries as such a request found them
    quiet,            \* history: last event of the session was a lone close
    released,         \* history: handles removed by an end-of-utterance
    staleUse,         \* history: an audio engine call began on a released handle
    created,          \* history: handles created per session
    born              \* history: handles created per session since its last
                      \* end-of-utterance completed

vars == <<model, rec, resets, reset_resp, recognizers, session_locks, session_closed, locked, nextLock,
          nextHandle, pc, sid, eou, body, float_data, lock, local_rec,
          audio_bytes, accept_result, engine_out, resp,
          calls, wrote, overlapped, after, seen, quiet, released, staleUse,
          created, born>>

registry == <<recognizers, session_locks, session_closed>>
locals == <<sid, eou, body, float_data, lock, local_rec, audio_bytes,
            accept_result, engine_out>>
history == <<calls, wrote, overlapped, after, seen, quiet, released, staleUse,
             created, born>>
legacy == <<rec, resets, reset_resp>>

\* ------------------------------------------------------------- responses
NoResp == [status |-> 0, success |-> FALSE, text |-> "", type |-> "none",
           error |-> "none"]
Ok(text, type) == [status |-> 200, success |-> TRUE, text |-> text,
                   type |-> type, error |-> "none"]
Err(status, error) == [status |-> status, success |-> FALSE, text |-> "",
                       type |-> "none", error |-> error]

\* --------------------------------------------------- engine result strings
\* What Result(), PartialResult() and FinalResult() may hand back: the empty
\* string, text that is not a JSON object, an object without the text field,
\* an object carrying recognized text (under 'text' from Result and
\* FinalResult, under 'partial' from PartialResult).
EngineStr == {"", "garbage", "{}", "{text}"}
EngineOut == EngineStr \cup {"raise"}

\* json.loads(s) followed by .get(key, '')
Parses(s) == s \in {"{}", "{text}"}
TextOf(s) == IF s = "{text}" THEN "words" ELSE ""

\* ---------------------------------------------------------------- samples
\* A float32 sample is finite, in thousandths of 1.0, or NaN or an infinity.
\* A body is a wave: every sample is base, except sample number at (counted
\* from 1; 0 for none), which is alt.
Finite(m) == [kind |-> "finite", milli |-> m]
NonFinite == {[kind |-> k, milli |-> 0] : k \in {"nan", "posinf", "neginf"}}
Wave(base, alt, at) == [base |-> base, alt |-> alt, at |-> at]
Silence == Wave(Finite(0), Finite(0), 0)
Spike == Wave(Finite(0), Finite(Unit), 2)
FloatAt(f, i) == IF i = f.at THEN f.alt ELSE f.base

\* np.nan_to_num(float_data, nan=0.0, posinf=1.0, neginf=-1.0)
NanToNum(x) ==
    IF x.kind = "nan" THEN 0
    ELSE IF x.kind = "posinf" THEN Unit
    ELSE IF x.kind = "neginf" THEN 0 - Unit
    ELSE x.milli
\* np.clip(float_data, -1.0, 1.0)
Clip(m) == IF m > Unit THEN Unit ELSE IF m < 0 - Unit THEN 0 - Unit ELSE m
\* float32 arithmetic of line 210, in integers below 2^31. A float32 holds a
\* 24-bit significand, rounded to nearest, ties to even.
RECURSIVE Pow2(_)
Pow2(n) == IF n = 0 THEN 1 ELSE 2 * Pow2(n - 1)
\* quotient q with remainder r out of a divisor 2 * half, rounded
RoundEven(q, r, half) ==
    IF r > half \/ (r = half /\ q % 2 = 1) THEN q + 1 ELSE q
\* the float32 nearest a / Unit, 0 < a <= Unit, is
\* Significand(a * 2^e) * 2^-(e + 23), where Unit <= a * 2^e < 2 * Unit
Exponent(a) == CHOOSE e \in 0..10 : Unit <= a * Pow2(e) /\ a * Pow2(e) < 2 * Unit
Significand(n) ==
    LET hi == n * Pow2(11)
        lo == (hi % Unit) * Pow2(12)
    IN  RoundEven((hi \div Unit) * Pow2(12) + (lo \div Unit), 2 * (lo % Unit), Unit)
\* sig * 32767 is exact in 39 bits, kept as high * 2^12 + low; the float32
\* product keeps its leading 24 bits: the result is TimesFullScale * 2^drop
\* with drop = 14 below 2^38 and 15 from there
Drop(sig) ==
    LET low == (sig % Pow2(12)) * FullScale
        high == (sig \div Pow2(12)) * FullScale + (low \div Pow2(12))
    IN  IF high >= Pow2(26) THEN 15 ELSE 14
TimesFullScale(sig) ==
    LET low == (sig % Pow2(12)) * FullScale
        high == (sig \div Pow2(12)) * FullScale + (low \div Pow2(12))
        s == Drop(sig) - 12
    IN  RoundEven(high \div Pow2(s),
                  (high % Pow2(s)) * Pow2(12) + (low % Pow2(12)),
                  Pow2(s - 1) * Pow2(12))
\* (float_data * 32767).astype(np.int16): the float32 product of the float32
\* sample, truncated toward zero
Magnitude(a) ==
    LET e == Exponent(a)
        sig == Significand(a * Pow2(e))
    IN  TimesFullScale(sig) \div Pow2(e + 23 - Drop(sig))
ToInt16(m) ==
    IF m = 0 THEN 0
    ELSE IF m > 0 THEN Magnitude(m)
    ELSE 0 - Magnitude(0 - m)
\* int16_data[i - 1]
Quantized(f, i) == ToInt16(Clip(NanToNum(FloatAt(f, i))))

Abs(x) == IF x < 0 THEN 0 - x ELSE x

\* np.max(np.abs(np.diff(audio_samples))) > 20000 over the first n samples;
\* only the pairs with the odd sample can differ.
HasJump(f, n) ==
    \E i \in {f.at, f.at + 1} \cap (2..n) :
        Abs(Quantized(f, i) - Quantized(f, i - 1)) > ClickLimit

\* Waves drawn by concurrent requests, and by a request processed alone to
\* exercise the conversion: levels inside and outside [-1.0, 1.0], non-finite
\* samples, the odd sample at either end, at the cap and beyond it.
SpecWaves == {Silence, Spike}
Levels == {Finite(m) : m \in {0 - 2 * Unit, 0 - Unit, 0 - Unit \div 2, 0,
                               Unit \div 2, Unit}}
ClickWaves == {Wave(b, a, k) : b \in Levels, a \in Levels \cup NonFinite,
                               k \in {1, 2, ShortBytes \div 2, MaxBytes \div 2,
                                      MaxBytes \div 2 + 1}}

\* ------------------------------------------------------------ normalizer
\* len(np.frombuffer(audio_data, float32))
Float32Count(len) == len \div SampleWidth
\* len(int16_data.tobytes())
Int16Bytes(len) == 2 * Float32Count(len)
\* odd-length truncation, then max_bytes truncation (its variant: no cap)
DropOdd(n) == IF n % 2 # 0 THEN n - 1 ELSE n
CapNone(n) == n
Cap(n) == IF n > MaxBytes THEN MaxBytes ELSE n
\* zero padding up to min_samples
Pad(n) == IF n \div 2 < MinSamples THEN 2 * MinSamples ELSE n
Normalize(len) == Pad(Cap(DropOdd(Int16Bytes(len))))

\* Variant: the multiple-of-4 test is missing.
ValidateNoAlign(len) ==
    IF len = 0 THEN "empty"
    ELSE IF Float32Count(len) = 0 THEN "nofloat"
    ELSE IF Int16Bytes(len) < ShortBytes THEN "short"
    ELSE "ok"

\* Variant: the test of the quantized length is missing.
ValidateNoShort(len) ==
    IF len = 0 THEN "empty"
    ELSE IF len % SampleWidth # 0 THEN "misaligned"
    ELSE IF Float32Count(len) = 0 THEN "nofloat"
    ELSE "ok"

\* The outcome of lines 179-231: "empty", "misaligned", "nofloat", "short", "ok"
Validate(len) ==
    IF len = 0 THEN "empty"
    ELSE IF len % SampleWidth # 0 THEN "misaligned"
    ELSE IF Float32Count(len) = 0 THEN "nofloat"
    ELSE IF Int16Bytes(len) < ShortBytes THEN "short"
    ELSE "ok"

\* ----------------------------------------------------------------- helpers
InFlight(r) == pc[r] \notin {"idle", "done"}
OthersInFlight(r, s) == \E q \in Req : q # r /\ InFlight(q) /\ sid[q] = s

\* What the three registries hold for session s.
Entries(s) == <<recognizers[s], session_locks[s], s \in session_closed>>

\* Variant: one lock object serves every session.
SetDefaultGlobal(r, s) ==
    /\ lock' = [lock EXCEPT ![r] = 1]
    /\ IF session_locks[s] = None
       THEN /\ session_locks' = [session_locks EXCEPT ![s] = 1]
            /\ nextLock' = nextLock + 1
       ELSE UNCHANGED <<session_locks, nextLock>>

\* session_locks.setdefault(session_id, threading.Lock())
SetDefault(r, s) ==
    IF session_locks[s] = None
    THEN /\ session_locks' = [session_locks EXCEPT ![s] = nextLock]
         /\ nextLock' = nextLock + 1
         /\ lock' = [lock EXCEPT ![r] = nextLock]
    ELSE /\ lock' = [lock EXCEPT ![r] = session_locks[s]]
         /\ UNCHANGED <<session_locks, nextLock>>

\* History: the sessions whose entries the step of request r changes.
Track(r) ==
    wrote' = [wrote EXCEPT ![r] =
                 @ \cup {s \in Sessions : Entries(s)' # Entries(s)}]

\* The registries of lines 24-29 and the workers before any request.
Start ==
    /\ recognizers = [s \in Sessions |-> None]
    /\ session_locks = [s \in Sessions |-> None]
    /\ session_closed = {}
    /\ locked = {}
    /\ nextLock = 1
    /\ nextHandle = 1
    /\ pc = [r \in Req |-> "idle"]
    /\ sid = [r \in Req |-> None]
    /\ eou = [r \in Req |-> FALSE]
    /\ body = [r \in Req |-> 0]
    /\ float_data = [r \in Req |-> Silence]
    /\ lock = [r \in Req |-> None]
    /\ local_rec = [r \in Req |-> None]
    /\ audio_bytes = [r \in Req |-> 0]
    /\ accept_result = [r \in Req |-> "none"]
    /\ engine_out = [r \in Req |-> "none"]
    /\ resp = [r \in Req |-> NoResp]
    /\ calls = [r \in Req |-> 0]
    /\ wrote = [r \in Req |-> {}]
    /\ overlapped = [r \in Req |-> FALSE]
    /\ after = [r \in Req |-> FALSE]
    /\ seen = [r \in Req |-> <<None, None, FALSE>>]
    /\ quiet = [s \in Sessions |-> FALSE]
    /\ released = {}
    /\ staleUse = FALSE
    /\ created = [s \in Sessions |-> 0]
    /\ born = [s \in Sessions |-> 0]
    /\ resets = 0
    /\ reset_resp = NoResp

\* The service as its entry point runs it: the model is loaded, or the
\* process has exited (lines 352-355).
Init == model = TRUE /\ rec = 1 /\ Start

\* ------------------------------------------------- lock and registry steps
\* Variant: acquire() that does not wait for the holder.
CanAcquireAlways(l) == TRUE

\* threading.Lock.acquire() proceeds only on a free lock
CanAcquire(l) == l \notin locked

\* Variant: recognizers.get in place of pop, the entry stays.
PopRecKeep(s) == recognizers

\* recognizers.pop(session_id, None): the map afterwards
PopRec(s) == [recognizers EXCEPT ![s] = None]

\* Variant: the None test is missing.
NoSessionNever(h) == FALSE

\* if rec_session is None
NoSession(h) == h = None

\* Variant: the finally block removes the lock entries of all sessions.
PopLockAll(s) == [t \in Sessions |-> None]

\* Variant: the finally block leaves the lock entry.
PopLockKeep(s) == session_locks

\* session_locks.pop(session_id, None)
PopLock(s) == [session_locks EXCEPT ![s] = None]

\* Variant: the finally block leaves the closed marker.
DiscardClosedKeep(s) == session_closed

\* session_closed.discard(session_id)
DiscardClosed(s) == session_closed \ {s}

\* Variant: the check of the model is missing.
ModelLoadedAlways == TRUE

\* if not model (line 130)
ModelLoaded == model

\* Variant: the end-of-utterance flag is not looked at.
AfterBeginAudio(e) == "a_data"

\* if end_of_utt (line 149): on to the closing branch or to the body
AfterBegin(e) == IF e THEN "e_lock" ELSE "a_data"

\* Variant: the branches of line 287 are swapped.
AfterAcceptSwapped(out) == IF out = "true" THEN "a_partial" ELSE "a_result"

\* if accept_result (line 287): on to Result() or to PartialResult()
AfterAccept(out) == IF out = "true" THEN "a_result" ELSE "a_partial"

\* an engine call on handle h begins: is h one an end-of-utterance removed?
Stale(h) == h \in released

\* --------------------------------------------------------------- actions
\* Lines 126-146: model check, session id and flag, first setdefault.
\* Requests are numbered in the order they arrive and session ids in the order
\* they first appear (ids are opaque strings).
Begin(r, s, e) ==
    /\ pc[r] = "idle"
    /\ r > 1 => pc[r - 1] # "idle"
    /\ s > 1 => \E q \in Req : pc[q] # "idle" /\ sid[q] = s - 1
    /\ IF ~ModelLoaded
       THEN /\ pc' = [pc EXCEPT ![r] = "done"]
            /\ resp' = [resp EXCEPT ![r] = Err(500, "EngineUnavailable")]
            /\ UNCHANGED <<session_locks, nextLock, locals, overlapped,
                           after, seen, quiet>>
       ELSE /\ sid' = [sid EXCEPT ![r] = s]
            /\ eou' = [eou EXCEPT ![r] = e]
            /\ SetDefault(r, s)
            /\ pc' = [pc EXCEPT ![r] = AfterBegin(e)]
            /\ overlapped' = [q \in Req |->
                   IF q = r THEN OthersInFlight(r, s)
                   ELSE overlapped[q] \/ (InFlight(q) /\ sid[q] = s)]
            /\ after' = [after EXCEPT ![r] = quiet[s]]
            /\ seen' = IF quiet[s] THEN [seen EXCEPT ![r] = Entries(s)] ELSE seen
            /\ quiet' = [quiet EXCEPT ![s] = FALSE]
            /\ UNCHANGED <<body, float_data, local_rec, audio_bytes,
                           accept_result, engine_out, resp>>
    /\ UNCHANGED <<model, legacy, recognizers, session_closed, locked, nextHandle,
                   calls, released, staleUse, created, born>>
    /\ Track(r)

\* Line 150: with lock (end-of-utterance branch).
ELock(r) ==
    /\ pc[r] = "e_lock"
    /\ CanAcquire(lock[r])
    /\ locked' = locked \cup {lock[r]}
    /\ pc' = [pc EXCEPT ![r] = "e_pop"]
    /\ UNCHANGED <<model, legacy, registry, nextLock, nextHandle, locals, resp, history>>

\* Line 151: rec_session = recognizers.pop(session_id, None)
EPop(r) ==
    /\ pc[r] = "e_pop"
    /\ local_rec' = [local_rec EXCEPT ![r] = recognizers[sid[r]]]
    /\ recognizers' = PopRec(sid[r])
    /\ released' = IF recognizers'[sid[r]] # recognizers[sid[r]]
                   THEN released \cup {recognizers[sid[r]]} ELSE released
    /\ pc' = [pc EXCEPT ![r] = "e_mark"]
    /\ UNCHANGED <<model, legacy, session_locks, session_closed, locked, nextLock,
                   nextHandle, sid, eou, body, float_data, lock, audio_bytes,
                   accept_result, engine_out, resp, calls, overlapped, after,
                   seen, quiet, staleUse, created, born>>
    /\ Track(r)

\* Lines 153-161: session_closed.add; empty final when there was no handle,
\* otherwise enter FinalResult().
EMark(r) ==
    /\ pc[r] = "e_mark"
    /\ session_closed' = session_closed \cup {sid[r]}
    /\ IF NoSession(local_rec[r])
       THEN /\ resp' = [resp EXCEPT ![r] = Ok("", "final")]
            /\ pc' = [pc EXCEPT ![r] = "e_poplock"]
            /\ UNCHANGED calls
       ELSE /\ calls' = [calls EXCEPT ![r] = @ + 1]
            /\ pc' = [pc EXCEPT ![r] = "e_final"]
            /\ UNCHANGED resp
    /\ UNCHANGED <<model, legacy, recognizers, session_locks, locked, nextLock,
                   nextHandle, locals, overlapped, after, seen, quiet, released,
                   staleUse, created, born>>
    /\ Track(r)

\* Lines 162-170 and 316-324: FinalResult() returns or raises; its string is
\* parsed unless empty; any exception ends in the outer handler's 500.
FinalResponse(out) ==
    IF out = "raise" THEN Err(500, "InternalError")
    ELSE IF out = "" THEN Ok("", "final")
    ELSE IF Parses(out) THEN Ok(TextOf(out), "final")
    ELSE Err(500, "InternalError")

EFinal(r, out) ==
    /\ pc[r] = "e_final"
    /\ engine_out' = [engine_out EXCEPT ![r] = out]
    /\ resp' = [resp EXCEPT ![r] = FinalResponse(out)]
    /\ pc' = [pc EXCEPT ![r] = "e_poplock"]
    /\ UNCHANGED <<model, legacy, registry, locked, nextLock, nextHandle, sid, eou,
                   body, float_data, lock, local_rec, audio_bytes,
                   accept_result, history>>

\* Line 173 (finally): session_locks.pop(session_id, None)
EPopLock(r) ==
    /\ pc[r] = "e_poplock"
    /\ session_locks' = PopLock(sid[r])
    /\ pc' = [pc EXCEPT ![r] = "e_discard"]
    /\ UNCHANGED <<model, legacy, recognizers, session_closed, locked, nextLock,
                   nextHandle, locals, resp, calls, overlapped, after, seen, quiet,
                   released, staleUse, created, born>>
    /\ Track(r)

\* Line 174 (finally): session_closed.discard(session_id)
EDiscard(r) ==
    /\ pc[r] = "e_discard"
    /\ session_closed' = DiscardClosed(sid[r])
    /\ pc' = [pc EXCEPT ![r] = "e_unlock"]
    /\ UNCHANGED <<model, legacy, recognizers, session_locks, locked, nextLock,
                   nextHandle, locals, resp, calls, overlapped, after, seen, quiet,
                   released, staleUse, created, born>>
    /\ Track(r)

\* Variant: the lock is kept when the with block of line 150 is left.
EUnlockKeep(r) ==
    /\ pc[r] = "e_unlock"
    /\ pc' = [pc EXCEPT ![r] = "done"]
    /\ quiet' = [quiet EXCEPT ![sid[r]] = ~overlapped[r]]
    /\ born' = [born EXCEPT ![sid[r]] = 0]
    /\ UNCHANGED <<model, legacy, registry, locked, nextLock, nextHandle,
                   locals, resp, calls, wrote, overlapped, after, seen,
                   released, staleUse, created>>

\* Leaving the with block of line 150: the lock is released, the response sent.
EUnlock(r) ==
    /\ pc[r] = "e_unlock"
    /\ locked' = locked \ {lock[r]}
    /\ pc' = [pc EXCEPT ![r] = "done"]
    /\ quiet' = [quiet EXCEPT ![sid[r]] = ~overlapped[r]]
    /\ born' = [born EXCEPT ![sid[r]] = 0]
    /\ UNCHANGED <<model, legacy, registry, nextLock, nextHandle, locals, resp,
                   calls, wrote, overlapped, after, seen, released, staleUse,
                   created>>

\* Lines 177-259: read the body, validate, convert and normalize it.
\* Variant: a too-short body is rejected like an empty one.
DataResponseShortRejected(len) ==
    IF Validate(len) = "empty" THEN Err(400, "EmptyInput")
    ELSE IF Validate(len) = "misaligned" THEN Err(400, "MisalignedInput")
    ELSE IF Validate(len) = "nofloat" THEN Err(400, "EmptyFloat")
    ELSE IF Validate(len) = "short" THEN Err(400, "ShortInput")
    ELSE NoResp

DataResponse(len) ==
    IF Validate(len) = "empty" THEN Err(400, "EmptyInput")
    ELSE IF Validate(len) = "misaligned" THEN Err(400, "MisalignedInput")
    ELSE IF Validate(len) = "nofloat" THEN Err(400, "EmptyFloat")
    ELSE IF Validate(len) = "short" THEN Ok("", "partial")
    ELSE NoResp

\* The samples are read at line 195, after the tests of lines 179-191.
\* Lines 242-251: audio_samples is np.frombuffer over an immutable bytes
\* object, a read-only array; when a jump is found, the assignment of line
\* 250 raises ValueError, which the handler of line 306 answers.
AData(r, L, F) ==
    /\ pc[r] = "a_data"
    /\ \E len \in L :
        /\ body' = [body EXCEPT ![r] = len]
        /\ IF Validate(len) \in {"short", "ok"}
           THEN \E f \in F : float_data' = [float_data EXCEPT ![r] = f]
           ELSE UNCHANGED float_data
        /\ IF Validate(len) # "ok"
           THEN /\ resp' = [resp EXCEPT ![r] = DataResponse(len)]
                /\ pc' = [pc EXCEPT ![r] = "done"]
                /\ UNCHANGED audio_bytes
           ELSE IF HasJump(float_data'[r], Cap(DropOdd(Int16Bytes(len))) \div 2)
           THEN /\ audio_bytes' = [audio_bytes EXCEPT ![r] =
                                      Cap(DropOdd(Int16Bytes(len)))]
                /\ resp' = [resp EXCEPT ![r] = Err(500, "VoskError")]
                /\ pc' = [pc EXCEPT ![r] = "done"]
           ELSE /\ audio_bytes' = [audio_bytes EXCEPT ![r] = Normalize(len)]
                /\ resp' = [resp EXCEPT ![r] = DataResponse(len)]
                /\ pc' = [pc EXCEPT ![r] = "a_setdefault"]
    /\ UNCHANGED <<model, legacy, registry, locked, nextLock, nextHandle, sid, eou,
                   lock, local_rec, accept_result, engine_out, history>>

\* Line 262: lock = session_locks.setdefault(session_id, threading.Lock())
ASetDefault(r) ==
    /\ pc[r] = "a_setdefault"
    /\ SetDefault(r, sid[r])
    /\ pc' = [pc EXCEPT ![r] = "a_lock"]
    /\ UNCHANGED <<model, legacy, recognizers, session_closed, locked, nextHandle,
                   sid, eou, body, float_data, local_rec, audio_bytes,
                   accept_result, engine_out, resp, calls, overlapped, after,
                   seen, quiet, released, staleUse, created, born>>
    /\ Track(r)

\* Line 263: with lock (audio branch).
ALock(r) ==
    /\ pc[r] = "a_lock"
    /\ CanAcquire(lock[r])
    /\ locked' = locked \cup {lock[r]}
    /\ pc' = [pc EXCEPT ![r] = "a_closed"]
    /\ UNCHANGED <<model, legacy, registry, nextLock, nextHandle, locals, resp, history>>

\* Variant: the closed marker is not looked at.
AClosedIgnore(r) ==
    /\ pc[r] = "a_closed"
    /\ pc' = [pc EXCEPT ![r] = "a_get"]
    /\ UNCHANGED <<model, legacy, registry, locked, nextLock, nextHandle,
                   locals, resp, history>>

\* Lines 265-271: a session marked closed answers an empty partial.
AClosed(r) ==
    /\ pc[r] = "a_closed"
    /\ IF sid[r] \in session_closed
       THEN /\ resp' = [resp EXCEPT ![r] = Ok("", "partial")]
            /\ pc' = [pc EXCEPT ![r] = "a_unlock"]
       ELSE /\ pc' = [pc EXCEPT ![r] = "a_get"]
            /\ UNCHANGED resp
    /\ UNCHANGED <<model, legacy, registry, locked, nextLock, nextHandle, locals,
                   history>>

\* Lines 272-273: the session's handle is read; without one the request
\* enters KaldiRecognizer(model, 16000) at line 275.
AGet(r) ==
    /\ pc[r] = "a_get"
    /\ local_rec' = [local_rec EXCEPT ![r] = recognizers[sid[r]]]
    /\ IF recognizers[sid[r]] = None
       THEN /\ pc' = [pc EXCEPT ![r] = "a_create"]
            /\ calls' = [calls EXCEPT ![r] = @ + 1]
       ELSE /\ pc' = [pc EXCEPT ![r] = "a_enter"]
            /\ UNCHANGED calls
    /\ UNCHANGED <<model, legacy, registry, locked, nextLock, nextHandle, sid, eou,
                   body, float_data, lock, audio_bytes, accept_result,
                   engine_out, resp, wrote, overlapped, after, seen, quiet,
                   released, staleUse, created, born>>

\* Lines 275-283: KaldiRecognizer(model, 16000) returns a new handle, which is
\* bound to the session, or raises.
ACreate(r, ok) ==
    /\ pc[r] = "a_create"
    /\ IF ok
       THEN /\ local_rec' = [local_rec EXCEPT ![r] = nextHandle]
            /\ nextHandle' = nextHandle + 1
            /\ recognizers' = [recognizers EXCEPT ![sid[r]] = nextHandle]
            /\ created' = [created EXCEPT ![sid[r]] = @ + 1]
            /\ born' = [born EXCEPT ![sid[r]] = @ + 1]
            /\ pc' = [pc EXCEPT ![r] = "a_enter"]
            /\ UNCHANGED resp
       ELSE /\ resp' = [resp EXCEPT ![r] = Err(500, "CreateFailed")]
            /\ pc' = [pc EXCEPT ![r] = "a_unlock"]
            /\ UNCHANGED <<local_rec, nextHandle, recognizers, created, born>>
    /\ UNCHANGED <<model, legacy, session_locks, session_closed, locked, nextLock,
                   sid, eou, body, float_data, lock, audio_bytes,
                   accept_result, engine_out, calls, overlapped, after, seen,
                   quiet, released, staleUse>>
    /\ Track(r)

\* Line 286, the call: the request enters AcceptWaveform(audio_bytes) on the
\* handle it holds, whatever the registry has become since it read or bound it.
AEnter(r) ==
    /\ pc[r] = "a_enter"
    /\ calls' = [calls EXCEPT ![r] = @ + 1]
    /\ staleUse' = (staleUse \/ Stale(local_rec[r]))
    /\ pc' = [pc EXCEPT ![r] = "a_accept"]
    /\ UNCHANGED <<model, legacy, registry, locked, nextLock, nextHandle, locals,
                   resp, wrote, overlapped, after, seen, quiet, released,
                   created, born>>

\* Lines 286-287 and 306-314: AcceptWaveform(audio_bytes) returns True, False
\* or raises; on a return the request enters Result() or PartialResult().
AAccept(r, out) ==
    /\ pc[r] = "a_accept"
    /\ accept_result' = [accept_result EXCEPT ![r] = out]
    /\ IF out = "raise"
       THEN /\ resp' = [resp EXCEPT ![r] = Err(500, "VoskError")]
            /\ pc' = [pc EXCEPT ![r] = "a_unlock"]
            /\ UNCHANGED <<calls, staleUse>>
       ELSE /\ pc' = [pc EXCEPT ![r] = AfterAccept(out)]
            /\ calls' = [calls EXCEPT ![r] = @ + 1]
            /\ staleUse' = (staleUse \/ Stale(local_rec[r]))
            /\ UNCHANGED resp
    /\ UNCHANGED <<model, legacy, registry, locked, nextLock, nextHandle, sid, eou,
                   body, float_data, lock, local_rec, audio_bytes, engine_out,
                   wrote, overlapped, after, seen, quiet, released, created, born>>

\* Lines 288-305: the engine's string is parsed and its text returned; a
\* raising call or an unparsable string ends in the handler of line 306.
TextResponse(out, type) ==
    IF out # "raise" /\ Parses(out) THEN Ok(TextOf(out), type)
    ELSE Err(500, "VoskError")

AResult(r, out) ==
    /\ pc[r] = "a_result"
    /\ engine_out' = [engine_out EXCEPT ![r] = out]
    /\ resp' = [resp EXCEPT ![r] = TextResponse(out, "final")]
    /\ pc' = [pc EXCEPT ![r] = "a_unlock"]
    /\ UNCHANGED <<model, legacy, registry, locked, nextLock, nextHandle, sid, eou,
                   body, float_data, lock, local_rec, audio_bytes,
                   accept_result, history>>

APartial(r, out) ==
    /\ pc[r] = "a_partial"
    /\ engine_out' = [engine_out EXCEPT ![r] = out]
    /\ resp' = [resp EXCEPT ![r] = TextResponse(out, "partial")]
    /\ pc' = [pc EXCEPT ![r] = "a_unlock"]
    /\ UNCHANGED <<model, legacy, registry, locked, nextLock, nextHandle, sid, eou,
                   body, float_data, lock, local_rec, audio_bytes,
                   accept_result, history>>

\* Variant: an audio request removes its session's lock entry on leaving.
AUnlockPop(r) ==
    /\ pc[r] = "a_unlock"
    /\ locked' = locked \ {lock[r]}
    /\ session_locks' = PopLock(sid[r])
    /\ pc' = [pc EXCEPT ![r] = "done"]
    /\ UNCHANGED <<model, legacy, recognizers, session_closed, nextLock,
                   nextHandle, locals, resp, history>>

\* Leaving the with block of line 263.
AUnlock(r) ==
    /\ pc[r] = "a_unlock"
    /\ locked' = locked \ {lock[r]}
    /\ pc' = [pc EXCEPT ![r] = "done"]
    /\ UNCHANGED <<model, legacy, registry, nextLock, nextHandle, locals, resp,
                   history>>

\* Lines 326-347: POST /reset. The response of a successful reset carries a
\* message and neither text nor type.
ResetOk == [status |-> 200, success |-> TRUE, text |-> "", type |-> "none",
            error |-> "none"]

\* Variant: /reset also drops the streaming sessions' handles.
ResetAll(ok) ==
    /\ resets < MaxResets
    /\ resets' = resets + 1
    /\ rec' = rec + 1
    /\ reset_resp' = ResetOk
    /\ recognizers' = [s \in Sessions |-> None]
    /\ UNCHANGED <<model, session_locks, session_closed, locked, nextLock,
                   nextHandle, pc, locals, resp, history>>

\* rec = vosk.KaldiRecognizer(model, 16000) returns a fresh recognizer, which
\* replaces the global one, or raises.
Reset(ok) ==
    /\ resets < MaxResets
    /\ resets' = resets + 1
    /\ IF ~ModelLoaded
       THEN /\ reset_resp' = Err(500, "EngineUnavailable")
            /\ UNCHANGED rec
       ELSE IF ok
       THEN /\ rec' = rec + 1
            /\ reset_resp' = ResetOk
       ELSE /\ reset_resp' = Err(500, "InternalError")
            /\ UNCHANGED rec
    /\ UNCHANGED <<model, registry, locked, nextLock, nextHandle, pc, locals,
                   resp, history>>

\* ---------------------------------------------------------- specifications
Next ==
    \/ \E r \in Req, s \in Sessions, e \in BOOLEAN : Begin(r, s, e)
    \/ \E r \in Req : ELock(r)
    \/ \E r \in Req : EPop(r)
    \/ \E r \in Req : EMark(r)
    \/ \E r \in Req, out \in EngineOut : EFinal(r, out)
    \/ \E r \in Req : EPopLock(r)
    \/ \E r \in Req : EDiscard(r)
    \/ \E r \in Req : EUnlock(r)
    \/ \E r \in Req : AData(r, BodyLens, SpecWaves)
    \/ \E r \in Req : ASetDefault(r)
    \/ \E r \in Req : ALock(r)
    \/ \E r \in Req : AClosed(r)
    \/ \E r \in Req : AGet(r)
    \/ \E r \in Req, ok \in BOOLEAN : ACreate(r, ok)
    \/ \E r \in Req : AEnter(r)
    \/ \E r \in Req, out \in {"true", "false", "raise"} : AAccept(r, out)
    \/ \E r \in Req, out \in EngineOut : AResult(r, out)
    \/ \E r \in Req, out \in EngineOut : APartial(r, out)
    \/ \E r \in Req : AUnlock(r)

Spec == Init /\ [][Next]_vars

\* One audio request processed alone, its body of any length up to MaxBody.
NextNorm ==
    \/ \E s \in Sessions : Begin(1, s, FALSE)
    \/ AData(1, NormLens, {Silence})
    \/ ASetDefault(1)
    \/ ALock(1)
    \/ AClosed(1)
    \/ AGet(1)
    \/ \E ok \in BOOLEAN : ACreate(1, ok)
    \/ AEnter(1)
    \/ \E out \in {"true", "false", "raise"} : AAccept(1, out)
    \/ \E out \in EngineOut : AResult(1, out)
    \/ \E out \in EngineOut : APartial(1, out)
    \/ AUnlock(1)

SpecNorm == Init /\ [][NextNorm]_vars

\* One audio request processed alone, its samples drawn from ClickWaves.
NextClick ==
    \/ \E s \in Sessions : Begin(1, s, FALSE)
    \/ AData(1, ClickLens, ClickWaves)
    \/ ASetDefault(1)
    \/ ALock(1)
    \/ AClosed(1)
    \/ AGet(1)
    \/ \E ok \in BOOLEAN : ACreate(1, ok)
    \/ AEnter(1)
    \/ \E out \in {"true", "false", "raise"} : AAccept(1, out)
    \/ \E out \in EngineOut : AResult(1, out)
    \/ \E out \in EngineOut : APartial(1, out)
    \/ AUnlock(1)

SpecClick == Init /\ [][NextClick]_vars

\* The service imported without a model, or with one (lines 22 and 130).
InitBoot ==
    /\ model \in BOOLEAN
    /\ rec = (IF model THEN 1 ELSE None)
    /\ Start

SpecBoot == InitBoot /\ [][Next]_vars

\* Termination depends on no sample and on no recognized text: the requests
\* checked for it draw an empty or a shortest accepted silent body, and the
\* engine hands back recognized text or raises.
LiveLens == {0, ShortBytes * 2}
LiveOut == {"{text}", "raise"}

\* The steps of request r once it has arrived.
Step(r) ==
    \/ ELock(r) \/ EPop(r) \/ EMark(r)
    \/ \E out \in LiveOut : EFinal(r, out)
    \/ EPopLock(r) \/ EDiscard(r) \/ EUnlock(r)
    \/ AData(r, LiveLens, {Silence})
    \/ ASetDefault(r) \/ ALock(r) \/ AClosed(r) \/ AGet(r)
    \/ \E ok \in BOOLEAN : ACreate(r, ok)
    \/ AEnter(r)
    \/ \E out \in {"true", "false", "raise"} : AAccept(r, out)
    \/ \E out \in LiveOut : AResult(r, out)
    \/ \E out \in LiveOut : APartial(r, out)
    \/ AUnlock(r)

NextLive ==
    \/ \E r \in Req, s \in Sessions, e \in BOOLEAN : Begin(r, s, e)
    \/ \E r \in Req : Step(r)

\* Every worker thread keeps running: a request that can take a step
\* eventually takes one (engine calls return or raise, a free lock is given
\* to a request waiting for it). Arrivals are not forced.
Fairness == \A r \in Req : WF_vars(Step(r))

SpecLive == Init /\ [][NextLive]_vars /\ Fairness

\* NReqReset requests to /recognize_stream next to MaxResets requests to
\* /reset.
NextReset ==
    \/ \E r \in 1..NReqReset, s \in Sessions, e \in BOOLEAN : Begin(r, s, e)
    \/ \E r \in Req : ELock(r)
    \/ \E r \in Req : EPop(r)
    \/ \E r \in Req : EMark(r)
    \/ \E r \in Req, out \in EngineOut : EFinal(r, out)
    \/ \E r \in Req : EPopLock(r)
    \/ \E r \in Req : EDiscard(r)
    \/ \E r \in Req : EUnlock(r)
    \/ \E r \in Req : AData(r, BodyLens, SpecWaves)
    \/ \E r \in Req : ASetDefault(r)
    \/ \E r \in Req : ALock(r)
    \/ \E r \in Req : AClosed(r)
    \/ \E r \in Req : AGet(r)
    \/ \E r \in Req, ok \in BOOLEAN : ACreate(r, ok)
    \/ \E r \in Req : AEnter(r)
    \/ \E r \in Req, out \in {"true", "false", "raise"} : AAccept(r, out)
    \/ \E r \in Req, out \in EngineOut : AResult(r, out)
    \/ \E r \in Req, out \in EngineOut : APartial(r, out)
    \/ \E r \in Req : AUnlock(r)
    \/ \E ok \in BOOLEAN : Reset(ok)

SpecReset == InitBoot /\ [][NextReset]_vars

\* ------------------------------------------------------------ properties
\* The request is inside a with-lock block (lines 150-174 or 263-305).
InCS(r) == pc[r] \in {"e_pop", "e_mark", "e_final", "e_poplock", "e_discard",
                      "e_unlock", "a_closed", "a_get", "a_create", "a_enter",
                      "a_accept",
                      "a_result", "a_partial", "a_unlock"}

\* No end-of-utterance request has arrived so far.
NoEou == \A r \in Req : pc[r] # "idle" => ~eou[r]

\* The registries hold nothing for session s.
Clean(s) == Entries(s) = <<None, None, FALSE>>

\* An audio request whose body has been read.
HasBody(r) == model /\ ~eou[r] /\ pc[r] \notin {"idle", "a_data"}

\* C1: at most one in-flight request of a session is inside the lock-protected
\* section that reads, creates, removes or calls the session's engine handle.
C1_MutexPerSession ==
    \A r1, r2 \in Req :
        (r1 # r2 /\ InCS(r1) /\ InCS(r2)) => sid[r1] # sid[r2]

\* C2: while no end-of-utterance request has arrived, audio requests of one
\* session are inside the locked section one at a time, and a session whose
\* fragments reached the engine had exactly one handle created.
C2_FragmentsSerialized ==
    NoEou =>
        /\ \A r1, r2 \in Req :
               (r1 # r2 /\ InCS(r1) /\ InCS(r2)) => sid[r1] # sid[r2]
        /\ \A s \in Sessions : created[s] <= 1
        /\ \A r \in Req :
               pc[r] \in {"a_accept", "a_result", "a_partial"}
                   => created[sid[r]] = 1

\* Two overlapping fragments of one session both answered by the engine.
C2_Witness ==
    /\ NoEou
    /\ \E r1, r2 \in Req :
        /\ r1 # r2 /\ sid[r1] = sid[r2]
        /\ pc[r1] = "done" /\ pc[r2] = "done"
        /\ overlapped[r1] /\ overlapped[r2]
        /\ calls[r1] >= 2 /\ calls[r2] >= 2
        /\ resp[r1].status = 200 /\ resp[r2].status = 200
        /\ created[sid[r1]] = 1

\* C3: no AcceptWaveform, Result or PartialResult call begins on a handle that
\* an end-of-utterance request has removed from the registry.
C3_NoUseAfterRelease == ~staleUse

\* C4: a valid fragment arriving right after its session's end-of-utterance
\* completed is answered an empty partial without any engine call.
C4_LateFragmentDropped ==
    \A r \in Req :
        (HasBody(r) /\ after[r] /\ pc[r] = "done" /\ Validate(body[r]) = "ok")
            => resp[r] = Ok("", "partial") /\ calls[r] = 0

\* C5: once an end-of-utterance request that no request of its session
\* overlapped has completed, the registries hold no handle, no lock and no
\* closed marker for the session.
C5_CloseCleans == \A s \in Sessions : quiet[s] => Clean(s)

\* A lone close of a session that had a handle has completed, with each outcome.
C5_Witness ==
    \E r \in Req :
        /\ eou[r] /\ pc[r] = "done" /\ ~overlapped[r] /\ quiet[sid[r]]
        /\ local_rec[r] # None
        /\ resp[r].status = 500

\* C6: an end-of-utterance request that finds no handle for its session
\* returns 200, empty text, type final, and calls no engine operation.
C6_CloseWithoutHandle ==
    \A r \in Req :
        (eou[r] /\ pc[r] = "done" /\ local_rec[r] = None)
            => resp[r] = Ok("", "final") /\ calls[r] = 0

\* A close of a session that never had audio, and one of a closed session.
C6_Witness ==
    \E r1, r2 \in Req :
        /\ r1 # r2 /\ sid[r1] = sid[r2]
        /\ eou[r1] /\ pc[r1] = "done" /\ local_rec[r1] # None
        /\ eou[r2] /\ pc[r2] = "done" /\ local_rec[r2] = None /\ after[r2]
        /\ resp[r2] = Ok("", "final")

\* C7: a second end-of-utterance issued right after a first one on the same
\* session returns an empty final and leaves the session's registry entries
\* as the first one left them.
C7_CloseIdempotent ==
    \A r \in Req :
        (eou[r] /\ after[r] /\ ~overlapped[r] /\ pc[r] = "done")
            => /\ resp[r] = Ok("", "final")
               /\ quiet[sid[r]] => Entries(sid[r]) = seen[r]

\* The second of two closes in sequence, the first having removed a handle.
C7_Witness ==
    \E r1, r2 \in Req :
        /\ r1 # r2 /\ sid[r1] = sid[r2]
        /\ eou[r1] /\ pc[r1] = "done" /\ local_rec[r1] # None
        /\ eou[r2] /\ pc[r2] = "done" /\ after[r2] /\ ~overlapped[r2]
        /\ quiet[sid[r2]]

\* C8: an audio request answered 400 has changed no entry of the handle map,
\* the lock map or the closed set.
C8_RejectedLeavesState ==
    \A r \in Req :
        (HasBody(r) /\ pc[r] = "done" /\ resp[r].status = 400)
            => wrote[r] = {}

\* C9: an empty body is answered 400 EmptyInput, a body whose length is not a
\* multiple of 4 is answered 400 MisalignedInput, and neither reaches the engine.
C9_InvalidBodyRejected ==
    \A r \in Req :
        HasBody(r) =>
            /\ body[r] = 0 =>
                   /\ pc[r] = "done" /\ calls[r] = 0
                   /\ resp[r] = Err(400, "EmptyInput")
            /\ body[r] % 4 # 0 =>
                   /\ pc[r] = "done" /\ calls[r] = 0
                   /\ resp[r] = Err(400, "MisalignedInput")

\* A misaligned body long enough to be accepted otherwise was rejected.
C9_Witness ==
    \E r \in Req :
        /\ HasBody(r) /\ body[r] % 4 # 0 /\ body[r] > 1280
        /\ resp[r].status = 400

\* C10: the buffer inside AcceptWaveform, for a body of n float32 samples, has
\* an even length of min(2n, 32000) bytes, within [640, 32000].
C10_BufferLength ==
    \A r \in Req :
        pc[r] = "a_accept" =>
            /\ body[r] % 4 = 0 /\ body[r] \div 4 >= 320
            /\ audio_bytes[r] % 2 = 0
            /\ audio_bytes[r] = IF 2 * (body[r] \div 4) < 32000
                                THEN 2 * (body[r] \div 4) ELSE 32000
            /\ audio_bytes[r] >= 640 /\ audio_bytes[r] <= 32000

\* A body of more than 16000 samples is inside AcceptWaveform, truncated.
C10_Witness ==
    \E r \in Req :
        /\ pc[r] = "a_accept" /\ body[r] \div 4 > 16000
        /\ audio_bytes[r] = 32000

\* An audio request whose body passed the tests of lines 179-231.
Valid(r) == HasBody(r) /\ Validate(body[r]) = "ok"

\* No engine call of the request raised.
EngineQuiet(r) ==
    /\ accept_result[r] # "raise"
    /\ engine_out[r] # "raise"
    /\ resp[r].error # "CreateFailed"

\* C11: every aligned, non-empty fragment of at least 320 samples, sent while
\* the model is loaded and with no engine call raising, is answered 200 with
\* success true and type partial or final, never 400 or 500.
C11_ValidFragmentAnswered ==
    \A r \in Req :
        (Valid(r) /\ EngineQuiet(r) /\ pc[r] = "done")
            => /\ resp[r].status = 200
               /\ resp[r].success
               /\ resp[r].type \in {"partial", "final"}

\* C12: an aligned, non-empty fragment of fewer than 320 samples is answered
\* 200 with empty text, success true and type partial; the request calls no
\* engine operation and no engine handle is created or bound.
C12_ShortFragmentSkipped ==
    \A r \in Req :
        (HasBody(r) /\ body[r] > 0 /\ body[r] % 4 = 0 /\ body[r] \div 4 < 320)
            => /\ pc[r] = "done"
               /\ resp[r] = Ok("", "partial")
               /\ calls[r] = 0
               /\ local_rec[r] = None
               /\ nextHandle = 1
               /\ \A s \in Sessions : recognizers[s] = None

\* The longest fragment that is still too short (319 samples) was answered.
C12_Witness ==
    \E r \in Req :
        /\ HasBody(r) /\ body[r] = 4 * 319
        /\ resp[r] = Ok("", "partial")

\* The request ended at one of the validation tests of lines 179-231.
Rejected(r) ==
    HasBody(r) /\ Validate(body[r]) \in {"empty", "misaligned", "short"}

\* C13 as stated: every validation failure of a fragment, whether empty,
\* misaligned or too short, is reported with a 4xx status.
C13_AllFailures4xx ==
    \A r \in Req :
        Rejected(r) => resp[r].status >= 400 /\ resp[r].status < 500

\* C13, amended: empty and misaligned input are reported with status 400 and
\* success false; too-short input is answered 200 with success true.
C13_ValidationStatus ==
    \A r \in Req :
        Rejected(r) =>
            /\ resp[r].status = IF Validate(body[r]) = "short" THEN 200 ELSE 400
            /\ resp[r].success = (Validate(body[r]) = "short")

\* A too-short fragment was answered 200.
C13_Witness ==
    \E r \in Req :
        /\ Rejected(r) /\ Validate(body[r]) = "short" /\ body[r] = SampleWidth
        /\ resp[r].status = 200

\* Some quantized sample of the request's capped buffer differs from the one
\* before it by more than 20000.
Jumpy(r) == HasJump(float_data[r], Cap(DropOdd(Int16Bytes(body[r]))) \div 2)

\* C14: a valid fragment with a quantized jump of more than 20000 between
\* adjacent samples succeeds: it is handed to the engine (smoothed) and, no
\* engine call raising, answered 200.
C14_DeclickSucceeds ==
    \A r \in Req :
        (Valid(r) /\ Jumpy(r))
            => /\ pc[r] = "done" => calls[r] > 0
               /\ (pc[r] = "done" /\ EngineQuiet(r)) => resp[r].status = 200

\* No end-of-utterance request for session s has arrived so far.
NoEouFor(s) == \A q \in Req : (pc[q] # "idle" /\ eou[q]) => sid[q] # s

\* C15: when AcceptWaveform raised for a fragment of session s, the request
\* completes with status 500, its lock is not held once it has completed, and
\* the handle it used is still the one bound to s.
C15_AcceptRaiseKeepsSession ==
    [][\A r \in Req :
          (/\ pc[r] = "a_unlock" /\ pc'[r] = "done"
           /\ accept_result[r] = "raise")
              => /\ resp'[r].status = 500
                 /\ lock[r] \notin locked'
                 /\ local_rec[r] # None
                 /\ recognizers'[sid[r]] = local_rec[r]]_vars

\* C16: while the model is not loaded, every request that arrived is answered
\* 500 at once and the handle map, the lock map and the closed set hold what
\* they held before it.
C16_UnloadedModelRefused ==
    ~model =>
        /\ \A r \in Req :
               pc[r] # "idle" =>
                   /\ pc[r] = "done"
                   /\ resp[r] = Err(500, "EngineUnavailable")
                   /\ wrote[r] = {}
        /\ \A s \in Sessions : Clean(s)
        /\ nextLock = 1 /\ nextHandle = 1 /\ locked = {}

\* Every request was refused by a service without a model.
C16_Witness ==
    /\ ~model
    /\ \A r \in Req : pc[r] = "done" /\ resp[r].status = 500

\* Request r is at a with statement whose lock request q holds.
WaitsFor(r, q) ==
    /\ r # q
    /\ pc[r] \in {"e_lock", "a_lock"}
    /\ InCS(q)
    /\ lock[q] = lock[r]

\* C17: a request never waits for a lock held by a request of another
\* session.
C17_SessionsIndependent ==
    \A r, q \in Req : WaitsFor(r, q) => sid[q] = sid[r]

\* Requests of two sessions are inside their engine calls at the same time,
\* and a third request waits for one of them.
C17_Witness ==
    \E r, q, w \in Req :
        /\ sid[r] # sid[q]
        /\ pc[r] = "a_accept" /\ pc[q] = "a_accept"
        /\ WaitsFor(w, q)

\* The request was answered with an error.
Failed(r) == pc[r] = "done" /\ resp[r].status >= 400

\* C18: a request answered with an error has changed no handle, lock entry
\* or closed marker of a session other than its own.
C18_FailureStaysLocal ==
    \A r \in Req : Failed(r) => wrote[r] \subseteq {sid[r]}

\* A handle-creation failure and a validation rejection on one session, while
\* another session keeps its handle and its lock entry.
C18_Witness ==
    \E r1, r2 \in Req, s \in Sessions :
        /\ r1 # r2 /\ sid[r1] # s /\ sid[r2] # s
        /\ Failed(r1) /\ resp[r1].error = "CreateFailed"
        /\ Failed(r2) /\ resp[r2].status = 400
        /\ recognizers[s] # None /\ session_locks[s] # None

\* AcceptWaveform returned for the request and the call that followed it
\* handed back a string.
Answered(r) ==
    /\ ~eou[r]
    /\ pc[r] \in {"a_unlock", "done"}
    /\ accept_result[r] \in {"true", "false"}
    /\ engine_out[r] \in EngineStr

\* C19: the response to an accepted fragment is tagged final exactly when
\* AcceptWaveform returned true and partial exactly when it returned false,
\* and carries the text of the string that Result() (respectively
\* PartialResult()) handed back.
C19_TagFollowsAccept ==
    \A r \in Req :
        Answered(r) =>
            /\ Parses(engine_out[r]) => resp[r].status = 200
            /\ resp[r].status = 200 =>
                   /\ resp[r].type = "final" <=> accept_result[r] = "true"
                   /\ resp[r].type = "partial" <=> accept_result[r] = "false"
                   /\ resp[r].text = TextOf(engine_out[r])

\* Two fragments of one session, one tagged final and one tagged partial,
\* both carrying recognized text.
C19_Witness ==
    \E r1, r2 \in Req :
        /\ sid[r1] = sid[r2]
        /\ Answered(r1) /\ accept_result[r1] = "true"
        /\ resp[r1] = Ok("words", "final")
        /\ Answered(r2) /\ accept_result[r2] = "false"
        /\ resp[r2] = Ok("words", "partial")

\* C20: a request whose engine call handed back an empty or unparsable
\* string is answered 200 with text "" and success true.
C20_MalformedOutputTolerated ==
    \A r \in Req :
        engine_out[r] \in {"", "garbage"}
            => /\ resp[r].status = 200
               /\ resp[r].text = ""
               /\ resp[r].success

\* C21: a /reset request, answered 200 or 500, leaves the handle map, the
\* lock map and the closed set of the streaming sessions as they were, and
\* no lock changes hands.
C21_ResetLeavesSessions ==
    [][resets' # resets =>
          /\ recognizers' = recognizers
          /\ session_locks' = session_locks
          /\ session_closed' = session_closed
          /\ locked' = locked]_vars

\* A successful and then a failed reset were answered, while a session has a
\* handle and a lock entry and another is marked closed.
C21_Witness ==
    /\ resets = 2 /\ rec = 2 /\ reset_resp.status = 500
    /\ \E s, t \in Sessions :
        /\ recognizers[s] # None /\ session_locks[s] # None
        /\ t \in session_closed

\* The request waits for its session lock or holds it.
AtLock(r) == pc[r] \in {"e_lock", "a_lock"} \/ InCS(r)

\* C22: at every moment the in-flight requests of one session that hold or
\* wait for a session lock all refer to the same lock object.
C22_OneLockPerSession ==
    \A r, q \in Req :
        (AtLock(r) /\ AtLock(q) /\ sid[r] = sid[q]) => lock[r] = lock[q]

\* C23: between two consecutive end-of-utterance completions of a session (or
\* from the start to the first), at most one engine handle is created for it.
C23_OneHandlePerLifetime == \A s \in Sessions : born[s] <= 1

\* A valid fragment without a jump that arrived right after an
\* end-of-utterance of its session had completed, no other request of the
\* session being in flight with either of them.
Reuses(r) == Valid(r) /\ ~Jumpy(r) /\ after[r] /\ ~overlapped[r]

\* C24: when the requests of a session run one after another, the first
\* accepted fragment after a completed end-of-utterance is not dropped: it
\* creates a handle that no end-of-utterance has released, binds it to the
\* session and is fed to it.
C24_FreshHandleAfterClose ==
    \A r \in Req :
        Reuses(r) =>
            /\ pc[r] = "a_accept" =>
                   /\ calls[r] = 2
                   /\ local_rec[r] # None
                   /\ local_rec[r] \notin released
                   /\ recognizers[sid[r]] = local_rec[r]
            /\ pc[r] = "done" => calls[r] >= 1

\* A fragment created a handle, an end-of-utterance released it, and the next
\* fragment is inside AcceptWaveform on another handle.
C24_Witness ==
    \E r, q \in Req :
        /\ Reuses(r) /\ pc[r] = "a_accept"
        /\ eou[q] /\ sid[q] = sid[r] /\ pc[q] = "done"
        /\ local_rec[q] # None /\ local_rec[q] \in released
        /\ local_rec[r] # local_rec[q]

\* Every held lock is held by exactly one request inside its with block, and
\* every request inside a with block holds its lock and no other.
LocksAccounted ==
    /\ \A r \in Req : InCS(r) => lock[r] \in locked
    /\ \A r, q \in Req : (InCS(r) /\ InCS(q) /\ r # q) => lock[r] # lock[q]
    /\ Cardinality(locked) = Cardinality({r \in Req : InCS(r)})

\* C25: every request that arrived eventually completes with a response; at
\* every moment a request holds at most one lock, and none once completed.
C25_Terminates ==
    /\ []LocksAccounted
    /\ \A r \in Req : (pc[r] # "idle") ~> (pc[r] = "done" /\ resp[r].status # 0)

\* All requests have completed, with a 200, a 400 and a 500 among them, after
\* one of them waited for a lock; no lock is held.
C25_Witness ==
    /\ \A r \in Req : pc[r] = "done"
    /\ locked = {}
    /\ \E r1, r2, r3 \in Req :
        /\ resp[r1].status = 200 /\ resp[r2].status = 400
        /\ resp[r3].status = 500
        /\ overlapped[r1] /\ overlapped[r3]

\* The step removes session s from the handle map or from the lock map.
Removes(s) ==
    \/ recognizers[s] # None /\ recognizers'[s] = None
    \/ session_locks[s] # None /\ session_locks'[s] = None

\* The step is line 151 or line 173 of an end-of-utterance request for s.
CloseStep(s) ==
    \E r \in Req :
        /\ eou[r] /\ sid[r] = s
        /\ pc[r] \in {"e_pop", "e_poplock"}
        /\ pc'[r] # pc[r]

\* C26: only an end-of-utterance request for session s removes s from the
\* handle map or the lock map; no step of an audio request or of /reset does.
C26_OnlyCloseRemoves ==
    [][\A s \in Sessions : Removes(s) => CloseStep(s)]_vars

\* A session never closed still has its handle and its lock entry after an
\* accepted fragment, a failed or rejected one and two resets.
C26_Witness ==
    \E r, q \in Req :
        /\ r # q /\ sid[r] = sid[q] /\ NoEouFor(sid[r])
        /\ pc[r] = "done" /\ resp[r].status = 200 /\ calls[r] >= 2
        /\ pc[q] = "done" /\ resp[q].status >= 400
        /\ resets = 2
        /\ recognizers[sid[r]] # None /\ session_locks[sid[r]] # None

\* C27: whenever the handle map has an entry for a session, the lock map has
\* one too.
C27_HandleHasLock ==
    \A s \in Sessions : recognizers[s] # None => session_locks[s] # None

\* An end-of-utterance request for s is between its lines 153 and 174.
Closing(s) ==
    \E r \in Req :
        /\ eou[r] /\ sid[r] = s
        /\ pc[r] \in {"e_final", "e_poplock", "e_discard"}

\* C28: a session id is in the closed set only while an end-of-utterance
\* request for it is inside its locked section (so the set is empty when no
\* end-of-utterance is in flight), and an audio request that finds its
\* session marked returns an empty partial without reading, creating or
\* calling an engine handle.
C28_ClosedMarkerTransient ==
    /\ [](\A s \in Sessions : s \in session_closed => Closing(s))
    /\ [][\A r \in Req :
             (/\ pc[r] = "a_closed" /\ pc'[r] # "a_closed"
              /\ sid[r] \in session_closed)
                 => /\ pc'[r] = "a_unlock"
                    /\ resp'[r] = Ok("", "partial")
                    /\ calls'[r] = 0
                    /\ local_rec'[r] = None
                    /\ recognizers' = recognizers
                    /\ nextHandle' = nextHandle]_vars

\* A valid fragment found its session marked closed and was answered an
\* empty partial without an engine call.
C28_Witness ==
    \E r \in Req :
        /\ Valid(r) /\ ~Jumpy(r) /\ pc[r] = "done"
        /\ calls[r] = 0 /\ resp[r] = Ok("", "partial")

\* C29: an end-of-utterance request never reads a body and never feeds the
\* engine: AcceptWaveform is not called, the answer is never 400, and its
\* only engine call is at most one FinalResult, on the handle it removed.
C29_CloseFeedsNoAudio ==
    \A r \in Req :
        (pc[r] # "idle" /\ eou[r]) =>
            /\ accept_result[r] = "none"
            /\ body[r] = 0 /\ audio_bytes[r] = 0
            /\ resp[r].status # 400
            /\ calls[r] <= 1
            /\ calls[r] = 1 => local_rec[r] # None /\ local_rec[r] \in released
            /\ engine_out[r] # "none" => calls[r] = 1

\* An end-of-utterance request got the final text of the handle it removed.
C29_Witness ==
    \E r \in Req :
        /\ eou[r] /\ pc[r] = "done"
        /\ calls[r] = 1 /\ local_rec[r] \in released
        /\ resp[r] = Ok("words", "final")

====
